---- MODULE Spec2Model ----
(***************************************************************************)
(* Webhook signature validation of line-bot-sdk-rs:                        *)
(*   packages/line-bot-sdk-utils/src/signature.rs   validate_signature     *)
(*   examples/echo-bot/src/main.rs                  webhook_handler,       *)
(*                                                  handle_event           *)
(*                                                                         *)
(* Text is a sequence of one-character strings, a byte string a sequence   *)
(* of numbers in 0..255.                                                   *)
(***************************************************************************)
EXTENDS Integers, Sequences, FiniteSets, TLC

(***************************************************************************)
(* Bytes (u8) and the two bit operations of the comparison loop.           *)
(***************************************************************************)
Byte == 0..255

RECURSIVE BitXor(_, _)
BitXor(a, b) ==
    IF a = 0 THEN b
    ELSE IF b = 0 THEN a
    ELSE (((a % 2) + (b % 2)) % 2) + 2 * BitXor(a \div 2, b \div 2)

RECURSIVE BitOr(_, _)
BitOr(a, b) ==
    IF a = 0 THEN b
    ELSE IF b = 0 THEN a
    ELSE (IF a % 2 = 1 \/ b % 2 = 1 THEN 1 ELSE 0) + 2 * BitOr(a \div 2, b \div 2)

(***************************************************************************)
(* base64, general_purpose::STANDARD: the alphabet A-Z a-z 0-9 + /,        *)
(* '=' padding that is required and canonical, and no stray trailing bits. *)
(***************************************************************************)
Alphabet ==
    << "A","B","C","D","E","F","G","H","I","J","K","L","M","N","O","P",
       "Q","R","S","T","U","V","W","X","Y","Z","a","b","c","d","e","f",
       "g","h","i","j","k","l","m","n","o","p","q","r","s","t","u","v",
       "w","x","y","z","0","1","2","3","4","5","6","7","8","9","+","/" >>

AlphabetSet == { Alphabet[i] : i \in 1..64 }

PadChar == "="

\* The 6-bit value of a symbol of the alphabet.
SymbolValue == [ ch \in AlphabetSet |-> CHOOSE v \in 0..63 : Alphabet[v + 1] = ch ]

\* Number of '=' at the end of s.
RECURSIVE TrailingPads(_)
TrailingPads(s) ==
    IF Len(s) > 0 /\ s[Len(s)] = PadChar
    THEN 1 + TrailingPads(SubSeq(s, 1, Len(s) - 1))
    ELSE 0

\* Whether STANDARD.decode(s) is Ok: whole quads, at most two '=' and only at
\* the end, every other character of the alphabet, and the bits of the last
\* symbol that belong to no byte are zero.
Decodable(s) ==
    LET n    == Len(s)
        pad  == TrailingPads(s)
        data == n - pad
    IN  /\ n % 4 = 0
        /\ pad <= 2
        /\ \A i \in 1..data : s[i] \in AlphabetSet
        /\ pad = 2 => SymbolValue[s[data]] % 16 = 0
        /\ pad = 1 => SymbolValue[s[data]] % 4 = 0

\* The bytes STANDARD.decode(s) yields for a decodable s.
DecodedBytes(s) ==
    LET n      == Len(s)
        pad    == TrailingPads(s)
        outLen == 3 * (n \div 4) - pad
        Sym(j) == IF s[j] = PadChar THEN 0 ELSE SymbolValue[s[j]]
        Quad(q) == Sym(4 * q + 1) * 262144 + Sym(4 * q + 2) * 4096
                   + Sym(4 * q + 3) * 64 + Sym(4 * q + 4)
    IN  [ i \in 1..outLen |->
            LET q == (i - 1) \div 3
                r == (i - 1) % 3
            IN  CASE r = 0 -> (Quad(q) \div 65536) % 256
                  [] r = 1 -> (Quad(q) \div 256) % 256
                  [] OTHER -> Quad(q) % 256 ]

\* Variant of Base64Decode: an engine that takes '-' for '+' and '_' for '/'
\* as well (the URL-safe alphabet accepted beside the standard one).
Base64Decode_UrlTolerant(s) ==
    LET t == [ j \in 1..Len(s) |->
                 CASE s[j] = "-" -> "+"
                   [] s[j] = "_" -> "/"
                   [] OTHER -> s[j] ]
    IN  IF Decodable(t)
        THEN [ ok |-> TRUE,  bytes |-> DecodedBytes(t) ]
        ELSE [ ok |-> FALSE, bytes |-> << >> ]

\* general_purpose::STANDARD.decode(signature)
Base64Decode(s) ==
    IF Decodable(s)
    THEN [ ok |-> TRUE,  bytes |-> DecodedBytes(s) ]
    ELSE [ ok |-> FALSE, bytes |-> << >> ]

\* The standard padded encoding of a byte string (what the platform puts in
\* the x-line-signature header).
Base64Encode(bs) ==
    LET n       == Len(bs)
        outLen  == 4 * ((n + 2) \div 3)
        At(k)   == IF k <= n THEN bs[k] ELSE 0
        Group(g) == At(3 * g + 1) * 65536 + At(3 * g + 2) * 256 + At(3 * g + 3)
    IN  [ j \in 1..outLen |->
            LET g == (j - 1) \div 4
                r == (j - 1) % 4
            IN  CASE r = 0 -> Alphabet[((Group(g) \div 262144) % 64) + 1]
                  [] r = 1 -> Alphabet[((Group(g) \div 4096) % 64) + 1]
                  [] r = 2 -> IF 3 * g + 2 <= n
                              THEN Alphabet[((Group(g) \div 64) % 64) + 1]
                              ELSE PadChar
                  [] OTHER -> IF 3 * g + 3 <= n
                              THEN Alphabet[(Group(g) % 64) + 1]
                              ELSE PadChar ]

\* The URL-safe encoding: '-' for '+' and '_' for '/'.
UrlSafeEncode(bs) ==
    LET std == Base64Encode(bs)
    IN  [ j \in 1..Len(std) |->
            CASE std[j] = "+" -> "-"
              [] std[j] = "/" -> "_"
              [] OTHER -> std[j] ]

(***************************************************************************)
(* HMAC-SHA256 (crates hmac and sha2) as a keyed function with a 32-byte   *)
(* digest.  The digest below is a stand-in mixing function, not SHA-256:   *)
(* what the verifier relies on is that the digest has DigestLen bytes, is  *)
(* a function of key and message alone, and does not collide on the inputs *)
(* of the model (MacCollisionFree).                                        *)
(***************************************************************************)
DigestLen == 32

RECURSIVE Absorb(_, _)
Absorb(h, bs) ==
    IF Len(bs) = 0 THEN h
    ELSE Absorb((h * 31 + Head(bs) + 1) % 32749, Tail(bs))

\* HmacSha256::new_from_slice(key): accepts a key of any length.
HmacNew(key) == [ ok |-> TRUE, key |-> key, data |-> << >> ]

\* mac.update(body)
HmacUpdate(mac, bs) == [ mac EXCEPT !.data = @ \o bs ]

\* mac.finalize().into_bytes()
HmacFinalize(mac) ==
    LET h == Absorb(Absorb(Absorb(1, mac.key), << 256 >>), mac.data)
    IN  [ i \in 1..DigestLen |-> (((h + 131 * i) * (h + 131 * i)) \div 16) % 256 ]

HmacSha256(key, msg) == HmacFinalize(HmacUpdate(HmacNew(key), msg))

(***************************************************************************)
(* The outcomes of validate_signature: Result<bool, SignatureValidationError>. *)
(***************************************************************************)
OkTrue == "Ok(true)"
OkFalse == "Ok(false)"
InvalidSignatureFormat == "Err(InvalidSignatureFormat)"
InvalidKey == "Err(InvalidKey)"
NoOutcome == "none"

Min(a, b) == IF a <= b THEN a ELSE b

\* validate_signature as a function of its three arguments: what one call
\* that runs from its first statement to its return yields.
ValidateSignature(b, secret, sig) ==
    LET dec == Base64Decode(sig)
        m   == HmacNew(secret)
        computed == HmacFinalize(HmacUpdate(m, b))
    IN  IF ~dec.ok THEN InvalidSignatureFormat
        ELSE IF ~m.ok THEN InvalidKey
        ELSE IF Len(dec.bytes) # Len(computed) THEN OkFalse
        ELSE IF \A i \in 1..Len(computed) : BitXor(dec.bytes[i], computed[i]) = 0
             THEN OkTrue
             ELSE OkFalse

(***************************************************************************)
(* The inputs of the model.                                                *)
(***************************************************************************)
\* "secret", "Secret" and the empty secret, as bytes.
SecretA == << 115, 101, 99, 114, 101, 116 >>
SecretB == << 83, 101, 99, 114, 101, 116 >>
Secrets == { SecretA, SecretB, << >> }

\* b"", b"hello" and b"hello!" (one byte appended).
Hello == << 104, 101, 108, 108, 111 >>
HelloBang == Hello \o << 33 >>
Payloads == { << >>, Hello, HelloBang }

\* The digest with bit k (0 .. 8 * Len - 1) flipped.
FlipBit(bs, k) ==
    [ bs EXCEPT ![(k \div 8) + 1] = BitXor(@, 2 ^ (k % 8)) ]

ValidSigs == { Base64Encode(HmacSha256(s, p)) : s \in Secrets, p \in Payloads }

\* Claimed signatures that do not decode.
NotBase64 ==
    << "n","o","t","-","v","a","l","i","d","-","b","a","s","e","6","4","!","!" >>
MalformedSigs ==
    LET v == Base64Encode(HmacSha256(SecretA, Hello))
    IN  ({ NotBase64,
          SubSeq(v, 1, Len(v) - 1),                      \* padding missing
          v \o << "=" >>,                                \* one '=' too many
          [ v EXCEPT ![5] = "=" ],                       \* '=' inside
          [ v EXCEPT ![5] = " " ],                       \* a space
          << "a", "G", "k" >>,                           \* unpadded
          << "a", "R", "=", "=" >>,                      \* stray trailing bits
          << "=", "=", "=", "=" >> }
         \cup { UrlSafeEncode(HmacSha256(s, p)) : s \in Secrets, p \in Payloads })
        \ ValidSigs

\* Claimed signatures that decode to a byte string of another length.
WrongLengthSigs ==
    LET d == HmacSha256(SecretA, Hello)
    IN  { << >>,
          << "a", "G", "k", "=" >>,
          Base64Encode(SubSeq(d, 1, DigestLen - 1)),
          Base64Encode(d \o << 0 >>),
          Base64Encode(d \o d) }

BaseSigs == ValidSigs \cup MalformedSigs \cup WrongLengthSigs

\* <<body, channel_secret, signature>>: every base signature against every
\* payload and secret, and every single-bit flip of each pair's own digest.
Inputs ==
    (Payloads \X Secrets \X BaseSigs)
    \cup { << p, s, Base64Encode(FlipBit(HmacSha256(s, p), k)) >> :
             p \in Payloads, s \in Secrets, k \in 0..(8 * DigestLen - 1) }

(***************************************************************************)
(* State.  A call of validate_signature is a frame: its arguments, its     *)
(* locals, its position and its return value, one frame per caller.        *)
(***************************************************************************)
NumCalls == 2

Calls == 1..NumCalls

VARIABLES
    pc,                  \* frame -> position in validate_signature
    body,                \* frame -> argument body: &[u8]
    channel_secret,      \* frame -> argument channel_secret: &str, as bytes
    signature,           \* frame -> argument signature: &str
    expected_signature,  \* frame -> local: the decoded claimed signature
    mac,                 \* frame -> local: the HMAC state
    computed_signature,  \* frame -> local: the digest
    result,              \* frame -> local: the accumulator (u8)
    idx,                 \* frame -> pairs the zip iterator has yielded
    ret,                 \* frame -> the value returned
    hpc,                 \* webhook_handler: position
    header,              \* webhook_handler: the request's x-line-signature header
    req_body,            \* webhook_handler: the request's body
    status,              \* webhook_handler: the HTTP status of the response
    events,              \* webhook_handler: callback_request.events
    ev,                  \* webhook_handler: events handled so far
    results,             \* webhook_handler: the results vector
    replies,             \* reply_message calls made for the request
    validated,           \* validate_signature calls made for the request
    parsed               \* whether the request's body was handed to the parser

frame_vars ==
    << pc, body, channel_secret, signature, expected_signature, mac,
       computed_signature, result, idx, ret >>

handler_vars ==
    << hpc, header, req_body, status, events, ev, results, replies,
       validated, parsed >>

vars == << frame_vars, handler_vars >>

NoMac == [ ok |-> FALSE, key |-> << >>, data |-> << >> ]

\* The locals of frame c: what a step of c may read and write.
Frame(c) ==
    << pc[c], body[c], channel_secret[c], signature[c], expected_signature[c],
       mac[c], computed_signature[c], result[c], idx[c], ret[c] >>

(***************************************************************************)
(* validate_signature, statement by statement.                             *)
(***************************************************************************)
\* Entry: the arguments are bound and no local is initialised yet.
Enter(c, b, secret, sig) ==
    /\ pc' = [ pc EXCEPT ![c] = "decode" ]
    /\ body' = [ body EXCEPT ![c] = b ]
    /\ channel_secret' = [ channel_secret EXCEPT ![c] = secret ]
    /\ signature' = [ signature EXCEPT ![c] = sig ]
    /\ expected_signature' = [ expected_signature EXCEPT ![c] = << >> ]
    /\ mac' = [ mac EXCEPT ![c] = NoMac ]
    /\ computed_signature' = [ computed_signature EXCEPT ![c] = << >> ]
    /\ result' = [ result EXCEPT ![c] = 0 ]
    /\ idx' = [ idx EXCEPT ![c] = 0 ]
    /\ ret' = [ ret EXCEPT ![c] = NoOutcome ]

\* Variant of Decode: a signature that does not decode is taken as the empty
\* byte string (unwrap_or_default) instead of raising the error.
Decode_FallThrough(c) ==
    /\ pc[c] = "decode"
    /\ expected_signature' =
         [ expected_signature EXCEPT ![c] = Base64Decode(signature[c]).bytes ]
    /\ pc' = [ pc EXCEPT ![c] = "new_mac" ]
    /\ UNCHANGED << body, channel_secret, signature, mac, computed_signature,
                    result, idx, ret, handler_vars >>

\* let expected_signature = STANDARD.decode(signature)
\*     .map_err(|_| InvalidSignatureFormat)?;
Decode(c) ==
    /\ pc[c] = "decode"
    /\ LET d == Base64Decode(signature[c])
       IN  IF d.ok
           THEN /\ expected_signature' = [ expected_signature EXCEPT ![c] = d.bytes ]
                /\ pc' = [ pc EXCEPT ![c] = "new_mac" ]
                /\ ret' = ret
           ELSE /\ ret' = [ ret EXCEPT ![c] = InvalidSignatureFormat ]
                /\ pc' = [ pc EXCEPT ![c] = "done" ]
                /\ expected_signature' = expected_signature
    /\ UNCHANGED << body, channel_secret, signature, mac, computed_signature,
                    result, idx, handler_vars >>

\* Variant of NewMac: the MAC is keyed with a fixed secret, not the argument.
NewMac_FixedKey(c) ==
    /\ pc[c] = "new_mac"
    /\ mac' = [ mac EXCEPT ![c] = HmacNew(SecretA) ]
    /\ pc' = [ pc EXCEPT ![c] = "update" ]
    /\ UNCHANGED << body, channel_secret, signature, expected_signature,
                    computed_signature, result, idx, ret, handler_vars >>

\* let mut mac = HmacSha256::new_from_slice(channel_secret.as_bytes())
\*     .map_err(|_| InvalidKey)?;
NewMac(c) ==
    /\ pc[c] = "new_mac"
    /\ LET m == HmacNew(channel_secret[c])
       IN  IF m.ok
           THEN /\ mac' = [ mac EXCEPT ![c] = m ]
                /\ pc' = [ pc EXCEPT ![c] = "update" ]
                /\ ret' = ret
           ELSE /\ ret' = [ ret EXCEPT ![c] = InvalidKey ]
                /\ pc' = [ pc EXCEPT ![c] = "done" ]
                /\ mac' = mac
    /\ UNCHANGED << body, channel_secret, signature, expected_signature,
                    computed_signature, result, idx, handler_vars >>

\* Variant of Update: the body is never fed to the MAC.
Update_Skipped(c) ==
    /\ pc[c] = "update"
    /\ pc' = [ pc EXCEPT ![c] = "finalize" ]
    /\ UNCHANGED << body, channel_secret, signature, expected_signature, mac,
                    computed_signature, result, idx, ret, handler_vars >>

\* mac.update(body);
Update(c) ==
    /\ pc[c] = "update"
    /\ mac' = [ mac EXCEPT ![c] = HmacUpdate(@, body[c]) ]
    /\ pc' = [ pc EXCEPT ![c] = "finalize" ]
    /\ UNCHANGED << body, channel_secret, signature, expected_signature,
                    computed_signature, result, idx, ret, handler_vars >>

\* let computed_signature = mac.finalize().into_bytes();
Finalize(c) ==
    /\ pc[c] = "finalize"
    /\ computed_signature' = [ computed_signature EXCEPT ![c] = HmacFinalize(mac[c]) ]
    /\ pc' = [ pc EXCEPT ![c] = "len_check" ]
    /\ UNCHANGED << body, channel_secret, signature, expected_signature, mac,
                    result, idx, ret, handler_vars >>

\* Variant of LenCheck: the lengths are not compared, so the zip of the loop
\* stops at the shorter of the two.
LenCheck_Missing(c) ==
    /\ pc[c] = "len_check"
    /\ pc' = [ pc EXCEPT ![c] = "init_result" ]
    /\ UNCHANGED << body, channel_secret, signature, expected_signature, mac,
                    computed_signature, result, idx, ret, handler_vars >>

\* if expected_signature.len() != computed_signature.len() { return Ok(false); }
LenCheck(c) ==
    /\ pc[c] = "len_check"
    /\ IF Len(expected_signature[c]) # Len(computed_signature[c])
       THEN /\ ret' = [ ret EXCEPT ![c] = OkFalse ]
            /\ pc' = [ pc EXCEPT ![c] = "done" ]
       ELSE /\ pc' = [ pc EXCEPT ![c] = "init_result" ]
            /\ ret' = ret
    /\ UNCHANGED << body, channel_secret, signature, expected_signature, mac,
                    computed_signature, result, idx, handler_vars >>

\* Variant of InitResult: the accumulator is one cell shared by all calls
\* (a static), so initialising it clears it for every call in progress.
InitResult_Shared(c) ==
    /\ pc[c] = "init_result"
    /\ result' = [ d \in Calls |-> 0 ]
    /\ idx' = [ idx EXCEPT ![c] = 0 ]
    /\ pc' = [ pc EXCEPT ![c] = "loop" ]
    /\ UNCHANGED << body, channel_secret, signature, expected_signature, mac,
                    computed_signature, ret, handler_vars >>

\* let mut result = 0u8;   and the zip iterator of the for loop is created
InitResult(c) ==
    /\ pc[c] = "init_result"
    /\ result' = [ result EXCEPT ![c] = 0 ]
    /\ idx' = [ idx EXCEPT ![c] = 0 ]
    /\ pc' = [ pc EXCEPT ![c] = "loop" ]
    /\ UNCHANGED << body, channel_secret, signature, expected_signature, mac,
                    computed_signature, ret, handler_vars >>

\* Variant of LoopStep: the loop returns Ok(false) at the first pair that
\* differs (a short-circuiting comparison).
LoopStep_EarlyExit(c) ==
    /\ pc[c] = "loop"
    /\ idx[c] < Min(Len(expected_signature[c]), Len(computed_signature[c]))
    /\ IF expected_signature[c][idx[c] + 1] # computed_signature[c][idx[c] + 1]
       THEN /\ ret' = [ ret EXCEPT ![c] = OkFalse ]
            /\ pc' = [ pc EXCEPT ![c] = "done" ]
            /\ idx' = idx
       ELSE /\ idx' = [ idx EXCEPT ![c] = @ + 1 ]
            /\ UNCHANGED << pc, ret >>
    /\ UNCHANGED << body, channel_secret, signature, expected_signature, mac,
                    computed_signature, result, handler_vars >>

\* Variant of LoopStep: result = a ^ b, the accumulator overwritten.
LoopStep_Overwrite(c) ==
    /\ pc[c] = "loop"
    /\ idx[c] < Min(Len(expected_signature[c]), Len(computed_signature[c]))
    /\ result' = [ result EXCEPT ![c] =
                     BitXor(expected_signature[c][idx[c] + 1],
                            computed_signature[c][idx[c] + 1]) ]
    /\ idx' = [ idx EXCEPT ![c] = @ + 1 ]
    /\ UNCHANGED << pc, body, channel_secret, signature, expected_signature, mac,
                    computed_signature, ret, handler_vars >>

\* Variant of LoopExit: the accumulator is read from a cell the calls share,
\* which holds what the call that wrote last left there.
LoopExit_SharedResult(c) ==
    /\ pc[c] = "loop"
    /\ idx[c] >= Min(Len(expected_signature[c]), Len(computed_signature[c]))
    /\ ret' = [ ret EXCEPT ![c] =
                  IF \A d \in Calls : result[d] = 0 THEN OkTrue ELSE OkFalse ]
    /\ pc' = [ pc EXCEPT ![c] = "done" ]
    /\ UNCHANGED << body, channel_secret, signature, expected_signature, mac,
                    computed_signature, result, idx, handler_vars >>

\* One iteration of
\*   for (a, b) in expected_signature.iter().zip(computed_signature.iter())
\*       { result |= a ^ b; }
LoopStep(c) ==
    /\ pc[c] = "loop"
    /\ idx[c] < Min(Len(expected_signature[c]), Len(computed_signature[c]))
    /\ result' = [ result EXCEPT ![c] =
                     BitOr(@, BitXor(expected_signature[c][idx[c] + 1],
                                     computed_signature[c][idx[c] + 1])) ]
    /\ idx' = [ idx EXCEPT ![c] = @ + 1 ]
    /\ UNCHANGED << pc, body, channel_secret, signature, expected_signature, mac,
                    computed_signature, ret, handler_vars >>

\* The iterator is exhausted:  Ok(result == 0)
LoopExit(c) ==
    /\ pc[c] = "loop"
    /\ idx[c] >= Min(Len(expected_signature[c]), Len(computed_signature[c]))
    /\ ret' = [ ret EXCEPT ![c] = IF result[c] = 0 THEN OkTrue ELSE OkFalse ]
    /\ pc' = [ pc EXCEPT ![c] = "done" ]
    /\ UNCHANGED << body, channel_secret, signature, expected_signature, mac,
                    computed_signature, result, idx, handler_vars >>

\* One step of the call in frame c.
Step(c) ==
    \/ Decode(c)
    \/ NewMac(c)
    \/ Update(c)
    \/ Finalize(c)
    \/ LenCheck(c)
    \/ InitResult(c)
    \/ LoopStep(c)
    \/ LoopExit(c)

(***************************************************************************)
(* Initial state: no call has been made, no request received.              *)
(***************************************************************************)
NoHeader == [ kind |-> "missing", value |-> << >> ]

Init ==
    /\ pc = [ c \in Calls |-> "idle" ]
    /\ body = [ c \in Calls |-> << >> ]
    /\ channel_secret = [ c \in Calls |-> << >> ]
    /\ signature = [ c \in Calls |-> << >> ]
    /\ expected_signature = [ c \in Calls |-> << >> ]
    /\ mac = [ c \in Calls |-> NoMac ]
    /\ computed_signature = [ c \in Calls |-> << >> ]
    /\ result = [ c \in Calls |-> 0 ]
    /\ idx = [ c \in Calls |-> 0 ]
    /\ ret = [ c \in Calls |-> NoOutcome ]
    /\ hpc = "idle"
    /\ header = NoHeader
    /\ req_body = << >>
    /\ status = 0
    /\ events = << >>
    /\ ev = 0
    /\ results = << >>
    /\ replies = << >>
    /\ validated = 0
    /\ parsed = FALSE

(***************************************************************************)
(* Spec: one caller that calls validate_signature again and again, each    *)
(* time with any of the Inputs.                                            *)
(***************************************************************************)
Call(c) ==
    /\ pc[c] = "idle"
    /\ \E i \in Inputs : Enter(c, i[1], i[2], i[3])
    /\ UNCHANGED handler_vars

\* The caller has taken the returned value; the frame is gone.
Return(c) ==
    /\ pc[c] = "done"
    /\ pc' = [ pc EXCEPT ![c] = "idle" ]
    /\ body' = [ body EXCEPT ![c] = << >> ]
    /\ channel_secret' = [ channel_secret EXCEPT ![c] = << >> ]
    /\ signature' = [ signature EXCEPT ![c] = << >> ]
    /\ expected_signature' = [ expected_signature EXCEPT ![c] = << >> ]
    /\ mac' = [ mac EXCEPT ![c] = NoMac ]
    /\ computed_signature' = [ computed_signature EXCEPT ![c] = << >> ]
    /\ result' = [ result EXCEPT ![c] = 0 ]
    /\ idx' = [ idx EXCEPT ![c] = 0 ]
    /\ ret' = [ ret EXCEPT ![c] = NoOutcome ]
    /\ UNCHANGED handler_vars

Next == Call(1) \/ Step(1) \/ Return(1)

Spec == Init /\ [][Next]_vars

(***************************************************************************)
(* SpecConc: NumCalls callers, each calling validate_signature again and   *)
(* again; the steps of their calls interleave in every order.              *)
(***************************************************************************)
\* A valid signature, one with its last bit flipped, one of another length
\* and one that does not decode, for the same body and secret.
ConcInputs ==
    LET d == HmacSha256(SecretA, Hello)
    IN  { << Hello, SecretA, Base64Encode(d) >>,
          << Hello, SecretA, Base64Encode(FlipBit(d, 8 * DigestLen - 1)) >>,
          << Hello, SecretA, << "a", "G", "k", "=" >> >>,
          << Hello, SecretA, NotBase64 >> }

CallConc(c) ==
    /\ pc[c] = "idle"
    /\ \E i \in ConcInputs : Enter(c, i[1], i[2], i[3])
    /\ UNCHANGED handler_vars

NextConc == \E c \in Calls : CallConc(c) \/ Step(c) \/ Return(c)

SpecConc == Init /\ [][NextConc]_vars

(***************************************************************************)
(* The echo bot's webhook_handler and handle_event.                        *)
(*                                                                         *)
(* serde_json and the CallbackRequest model are not part of these sources. *)
(* A request body here is '{', one byte per event, '}': enough for the     *)
(* parser to fail on some signed bodies and to yield event lists of each   *)
(* kind on others, while the signature is still computed over the bytes.   *)
(***************************************************************************)
\* State(channel_secret): CHANNEL_SECRET of the environment.
ChannelSecret == SecretA

\* 'T' and 'U': text messages with a reply token; 'I': an image message with
\* a reply token; 'N': a text message without reply token; 'F': a follow
\* event (not a message event).
EventCodes == { 84, 85, 73, 78, 70 }

EventOf(code) ==
    CASE code = 84 -> [ type |-> "message", hasToken |-> TRUE,  replyToken |-> "tokT",
                        hasMessage |-> TRUE,  msgType |-> "text",
                        hasText |-> TRUE,  text |-> "hi" ]
      [] code = 85 -> [ type |-> "message", hasToken |-> TRUE,  replyToken |-> "tokU",
                        hasMessage |-> TRUE,  msgType |-> "text",
                        hasText |-> TRUE,  text |-> "yo" ]
      [] code = 73 -> [ type |-> "message", hasToken |-> TRUE,  replyToken |-> "tokI",
                        hasMessage |-> TRUE,  msgType |-> "image",
                        hasText |-> FALSE, text |-> "" ]
      [] code = 78 -> [ type |-> "message", hasToken |-> FALSE, replyToken |-> "",
                        hasMessage |-> TRUE,  msgType |-> "text",
                        hasText |-> TRUE,  text |-> "no" ]
      [] OTHER     -> [ type |-> "follow",  hasToken |-> TRUE,  replyToken |-> "tokF",
                        hasMessage |-> FALSE, msgType |-> "",
                        hasText |-> FALSE, text |-> "" ]

\* serde_json::from_slice::<CallbackRequest>(&body)
FromSlice(bs) ==
    IF /\ Len(bs) >= 2
       /\ bs[1] = 123
       /\ bs[Len(bs)] = 125
       /\ \A i \in 2..(Len(bs) - 1) : bs[i] \in EventCodes
    THEN [ ok |-> TRUE, events |-> [ i \in 1..(Len(bs) - 2) |-> EventOf(bs[i + 1]) ] ]
    ELSE [ ok |-> FALSE, events |-> << >> ]

\* The request bodies: "{}", "{T}", "{TU}", "{FT}", "{IN}", b"hello", b"".
HookBodies ==
    { << 123, 125 >>, << 123, 84, 125 >>, << 123, 84, 85, 125 >>,
      << 123, 70, 84, 125 >>, << 123, 73, 78, 125 >>, Hello, << >> }

\* headers.get("x-line-signature"): absent, a value to_str() refuses, or text.
TextHeader(sig) == [ kind |-> "text", value |-> sig ]
OpaqueHeader == [ kind |-> "opaque", value |-> << >> ]

HookSigs ==
    { Base64Encode(HmacSha256(ChannelSecret, b)) : b \in HookBodies }
    \cup { Base64Encode(HmacSha256(SecretB, << 123, 84, 125 >>)),
           Base64Encode(FlipBit(HmacSha256(ChannelSecret, << 123, 84, 125 >>), 0)),
           << "a", "G", "k", "=" >>,
           NotBase64 }

HookHeaders == { NoHeader, OpaqueHeader } \cup { TextHeader(sig) : sig \in HookSigs }

BAD_REQUEST == 400
UNAUTHORIZED == 401
OK == 200

\* Variant of HandleEvent: the type of the message is not looked at; every
\* message with a reply token is echoed with whatever text it has.
HandleEvent_AnyMessage(e) ==
    IF e.type # "message" THEN [ kind |-> "skip", replyToken |-> "", text |-> "" ]
    ELSE IF ~e.hasToken THEN [ kind |-> "skip", replyToken |-> "", text |-> "" ]
    ELSE IF ~e.hasMessage THEN [ kind |-> "error", replyToken |-> "", text |-> "" ]
    ELSE [ kind |-> "reply", replyToken |-> e.replyToken, text |-> e.text ]

\* What handle_event does with an event, up to the reply_message call:
\* "skip" returns Ok(()) without a reply, "error" returns Err for a missing
\* field, "reply" builds the request from the reply token and the text.
HandleEvent(e) ==
    IF e.type # "message" THEN [ kind |-> "skip", replyToken |-> "", text |-> "" ]
    ELSE IF ~e.hasToken THEN [ kind |-> "skip", replyToken |-> "", text |-> "" ]
    ELSE IF ~e.hasMessage THEN [ kind |-> "error", replyToken |-> "", text |-> "" ]
    ELSE IF e.msgType # "text" THEN [ kind |-> "skip", replyToken |-> "", text |-> "" ]
    ELSE IF ~e.hasText THEN [ kind |-> "error", replyToken |-> "", text |-> "" ]
    ELSE [ kind |-> "reply", replyToken |-> e.replyToken, text |-> e.text ]

\* A request arrives.
Receive ==
    /\ hpc = "idle"
    /\ \E h \in HookHeaders, b \in HookBodies :
         /\ header' = h
         /\ req_body' = b
    /\ hpc' = "get_header"
    /\ UNCHANGED << status, events, ev, results, replies, validated, parsed,
                    frame_vars >>

\* Variant of GetHeader: an absent or unreadable header is taken as the empty
\* signature (unwrap_or("")) and validated.
GetHeader_DefaultEmpty ==
    /\ hpc = "get_header"
    /\ Enter(1, req_body, ChannelSecret, header.value)
    /\ validated' = validated + 1
    /\ hpc' = "validate"
    /\ UNCHANGED << header, req_body, status, events, ev, results, replies, parsed >>

\* let signature = match headers.get("x-line-signature") { ... };
\* and, with a readable header, the call validate_signature(&body,
\* &channel_secret, signature) is entered.
GetHeader ==
    /\ hpc = "get_header"
    /\ IF header.kind = "text"
       THEN /\ Enter(1, req_body, ChannelSecret, header.value)
            /\ validated' = validated + 1
            /\ hpc' = "validate"
            /\ status' = status
       ELSE /\ status' = BAD_REQUEST
            /\ hpc' = "responded"
            /\ validated' = validated
            /\ UNCHANGED frame_vars
    /\ UNCHANGED << header, req_body, events, ev, results, replies, parsed >>

\* Variant of MatchOutcome: only an error ends the request; Ok(_) goes on.
MatchOutcome_AnyOk ==
    /\ hpc = "validate"
    /\ pc[1] = "done"
    /\ IF ret[1] \in { OkTrue, OkFalse }
       THEN /\ hpc' = "parse"
            /\ status' = status
       ELSE /\ status' = BAD_REQUEST
            /\ hpc' = "responded"
    /\ UNCHANGED << header, req_body, events, ev, results, replies, validated,
                    parsed, frame_vars >>

\* Variant of MatchOutcome: every failed validation is answered 401.
MatchOutcome_All401 ==
    /\ hpc = "validate"
    /\ pc[1] = "done"
    /\ IF ret[1] = OkTrue
       THEN /\ hpc' = "parse"
            /\ status' = status
       ELSE /\ status' = UNAUTHORIZED
            /\ hpc' = "responded"
    /\ UNCHANGED << header, req_body, events, ev, results, replies, validated,
                    parsed, frame_vars >>

\* match validate_signature(..) { Ok(true) => {}, Ok(false) => return 401,
\*                                Err(e) => return 400 }
MatchOutcome ==
    /\ hpc = "validate"
    /\ pc[1] = "done"
    /\ IF ret[1] = OkTrue
       THEN /\ hpc' = "parse"
            /\ status' = status
       ELSE IF ret[1] = OkFalse
       THEN /\ status' = UNAUTHORIZED
            /\ hpc' = "responded"
       ELSE /\ status' = BAD_REQUEST
            /\ hpc' = "responded"
    /\ UNCHANGED << header, req_body, events, ev, results, replies, validated,
                    parsed, frame_vars >>

\* let callback_request: CallbackRequest = match serde_json::from_slice(&body)
\*     { Ok(req) => req, Err(e) => return 400 };  let mut results = Vec::new();
ParseBody ==
    /\ hpc = "parse"
    /\ parsed' = TRUE
    /\ LET r == FromSlice(req_body)
       IN  IF r.ok
           THEN /\ events' = r.events
                /\ ev' = 0
                /\ results' = << >>
                /\ hpc' = "events"
                /\ status' = status
           ELSE /\ status' = BAD_REQUEST
                /\ hpc' = "responded"
                /\ UNCHANGED << events, ev, results >>
    /\ UNCHANGED << header, req_body, replies, validated, frame_vars >>

\* Variant of HandleNext: a failed handle_event ends the request with a
\* server error (the error propagated with ?), the later events unhandled.
HandleNext_StopOnError ==
    /\ hpc = "events"
    /\ ev < Len(events)
    /\ LET h == HandleEvent(events[ev + 1])
       IN  \E sent \in { "ok", "error" } :
             /\ h.kind = "skip" => sent = "ok"
             /\ h.kind = "error" => sent = "error"
             /\ replies' = IF h.kind = "reply"
                           THEN Append(replies,
                                       [ replyToken |-> h.replyToken, text |-> h.text ])
                           ELSE replies
             /\ results' = Append(results, sent)
             /\ IF sent = "error"
                THEN status' = 500 /\ hpc' = "responded"
                ELSE status' = status /\ hpc' = hpc
    /\ ev' = ev + 1
    /\ UNCHANGED << header, req_body, events, validated, parsed, frame_vars >>

\* One iteration of  for event in callback_request.events:
\* handle_event(&event, &messaging_config).await, whose reply_message call
\* succeeds or fails, and the push onto results ("ok", or the error).
HandleNext ==
    /\ hpc = "events"
    /\ ev < Len(events)
    /\ LET h == HandleEvent(events[ev + 1])
       IN  IF h.kind = "reply"
           THEN /\ replies' = Append(replies,
                                     [ replyToken |-> h.replyToken, text |-> h.text ])
                /\ \E sent \in { "ok", "error" } : results' = Append(results, sent)
           ELSE /\ replies' = replies
                /\ results' = Append(results, IF h.kind = "error" THEN "error" ELSE "ok")
    /\ ev' = ev + 1
    /\ UNCHANGED << hpc, header, req_body, status, events, validated, parsed,
                    frame_vars >>

\* (StatusCode::OK, "OK").into_response()
SendOk ==
    /\ hpc = "events"
    /\ ev = Len(events)
    /\ status' = OK
    /\ hpc' = "responded"
    /\ UNCHANGED << header, req_body, events, ev, results, replies, validated,
                    parsed, frame_vars >>

\* The response is out and the handler's state is dropped.
Finish ==
    /\ hpc = "responded"
    /\ hpc' = "idle"
    /\ header' = NoHeader
    /\ req_body' = << >>
    /\ status' = 0
    /\ events' = << >>
    /\ ev' = 0
    /\ results' = << >>
    /\ replies' = << >>
    /\ validated' = 0
    /\ parsed' = FALSE
    /\ pc' = [ pc EXCEPT ![1] = "idle" ]
    /\ body' = [ body EXCEPT ![1] = << >> ]
    /\ channel_secret' = [ channel_secret EXCEPT ![1] = << >> ]
    /\ signature' = [ signature EXCEPT ![1] = << >> ]
    /\ expected_signature' = [ expected_signature EXCEPT ![1] = << >> ]
    /\ mac' = [ mac EXCEPT ![1] = NoMac ]
    /\ computed_signature' = [ computed_signature EXCEPT ![1] = << >> ]
    /\ result' = [ result EXCEPT ![1] = 0 ]
    /\ idx' = [ idx EXCEPT ![1] = 0 ]
    /\ ret' = [ ret EXCEPT ![1] = NoOutcome ]

NextHook ==
    \/ Receive
    \/ GetHeader
    \/ Step(1)
    \/ MatchOutcome
    \/ ParseBody
    \/ HandleNext
    \/ SendOk
    \/ Finish

SpecHook == Init /\ [][NextHook]_vars

(***************************************************************************)
(* Properties of validate_signature, checked under Spec.                   *)
(***************************************************************************)
\* The signature the platform computes for a body under a secret.
SignatureOf(secret, b) == Base64Encode(HmacSha256(secret, b))

\* C1: for every payload (the empty one included) and every secret, a call
\* whose claimed signature is the standard padded base64 encoding of the
\* HMAC of the payload under the secret returns Ok(true).
C1_ValidSignatureAccepted ==
    \A c \in Calls :
        ( /\ pc[c] = "done"
          /\ signature[c] = SignatureOf(channel_secret[c], body[c]) )
        => ret[c] = OkTrue

\* The empty payload with its correct signature has been verified.
C1_Witness ==
    /\ pc[1] = "done"
    /\ body[1] = << >>
    /\ channel_secret[1] = SecretA
    /\ signature[1] = SignatureOf(SecretA, << >>)
    /\ ret[1] = OkTrue

\* C2: a call whose claimed signature is not decodable as standard base64
\* returns InvalidSignatureFormat, never Ok(true) or Ok(false), and goes from
\* the decoding straight to the return: no MAC is computed and no byte pair
\* is compared.
C2_MalformedSignatureIsError ==
    \A c \in Calls :
        ( pc[c] # "idle" /\ ~Decodable(signature[c]) )
        => /\ pc[c] \in { "decode", "done" }
           /\ ret[c] \in { NoOutcome, InvalidSignatureFormat }
           /\ pc[c] = "done" => ret[c] = InvalidSignatureFormat
           /\ idx[c] = 0
           /\ computed_signature[c] = << >>

\* "not-valid-base64!!" has been rejected.
C2_Witness ==
    /\ pc[1] = "done"
    /\ signature[1] = NotBase64
    /\ ret[1] = InvalidSignatureFormat

\* Whether two byte strings have the same length and the same byte at
\* every position.
SameBytes(x, y) == Len(x) = Len(y) /\ \A i \in 1..Len(x) : x[i] = y[i]

\* C3: a call with a decodable claimed signature returns Ok(true) if and only
\* if the decoded bytes have the length of the computed digest and equal it
\* byte for byte, and Ok(false) otherwise; a claimed signature that encodes
\* the digest with any one bit flipped yields Ok(false).
C3_TrueIffAllBytesEqual ==
    \A c \in Calls :
        ( pc[c] = "done" /\ Decodable(signature[c]) )
        => /\ ret[c] \in { OkTrue, OkFalse }
           /\ ret[c] = OkTrue
                <=> SameBytes(DecodedBytes(signature[c]),
                              HmacSha256(channel_secret[c], body[c]))
           /\ expected_signature[c] = DecodedBytes(signature[c])
           /\ \A k \in 0..(8 * DigestLen - 1) :
                expected_signature[c] = FlipBit(computed_signature[c], k)
                => ret[c] = OkFalse

\* A signature with bit 77 of the digest flipped has been refused after the
\* whole comparison.
C3_Witness ==
    /\ pc[1] = "done"
    /\ body[1] = Hello
    /\ channel_secret[1] = SecretA
    /\ signature[1] = Base64Encode(FlipBit(HmacSha256(SecretA, Hello), 77))
    /\ idx[1] = DigestLen
    /\ ret[1] = OkFalse

\* C4: a claimed signature that decodes to a byte string whose length is
\* not the digest's (the empty string included) yields Ok(false), no error.
C4_WrongLengthIsFalse ==
    \A c \in Calls :
        ( /\ pc[c] = "done"
          /\ Decodable(signature[c])
          /\ Len(DecodedBytes(signature[c])) # DigestLen )
        => ret[c] = OkFalse

\* The empty claimed signature, which decodes to no bytes, has been refused.
C4_Witness ==
    /\ pc[1] = "done"
    /\ signature[1] = << >>
    /\ expected_signature[1] = << >>
    /\ Len(computed_signature[1]) = DigestLen
    /\ ret[1] = OkFalse

\* The MAC has no collision on the secrets and payloads of the model.
MacCollisionFree ==
    \A s1 \in Secrets, s2 \in Secrets, p1 \in Payloads, p2 \in Payloads :
        HmacSha256(s1, p1) = HmacSha256(s2, p2) => (s1 = s2 /\ p1 = p2)

\* C5: if the MAC has no collisions, a signature valid for a payload and a
\* secret yields Ok(false) in a call with another secret or another payload.
C5_OtherSecretOrPayloadRejected ==
    \A c \in Calls :
        ( /\ pc[c] = "done"
          /\ \E s \in Secrets, p \in Payloads :
                /\ << s, p >> # << channel_secret[c], body[c] >>
                /\ signature[c] = SignatureOf(s, p)
          /\ MacCollisionFree )
        => ret[c] = OkFalse

\* The signature of b"hello" has been refused for b"hello!", one byte longer.
C5_Witness ==
    /\ pc[1] = "done"
    /\ body[1] = HelloBang
    /\ channel_secret[1] = SecretA
    /\ signature[1] = SignatureOf(SecretA, Hello)
    /\ ret[1] = OkFalse
    /\ MacCollisionFree

(***************************************************************************)
(* Properties of webhook_handler, checked under SpecHook.  The frame of    *)
(* the handler's validate_signature call is frame 1; ret[1] holds what the *)
(* call returned until the handler is done with the request.               *)
(***************************************************************************)
\* C6: the body is handed to the parser, events are handled and
\* reply_message is called only in a request with a readable signature
\* header whose one validate_signature call, on the request's own body and
\* the channel secret, has returned Ok(true).
C6_ParseAndReplyOnlyAfterOkTrue ==
    ( parsed \/ Len(replies) > 0 \/ ev > 0 \/ hpc \in { "parse", "events" } )
    => /\ header.kind = "text"
       /\ validated = 1
       /\ pc[1] = "done"
       /\ ret[1] = OkTrue
       /\ body[1] = req_body
       /\ channel_secret[1] = ChannelSecret
       /\ signature[1] = header.value

\* A verified request has been parsed and a reply sent for it.
C6_Witness ==
    /\ parsed
    /\ Len(replies) > 0
    /\ ret[1] = OkTrue
    /\ signature[1] = SignatureOf(ChannelSecret, req_body)

\* C7: a request whose validation returned Ok(false) is answered 401, one
\* whose validation returned an error is answered 400, and neither is
\* answered before the validation has returned.
C7_FalseIs401ErrorIs400 ==
    ( hpc = "responded" /\ validated > 0 )
    => /\ pc[1] = "done"
       /\ ret[1] = OkFalse => status = UNAUTHORIZED
       /\ ret[1] \in { InvalidSignatureFormat, InvalidKey } => status = BAD_REQUEST

\* A request with a well-formed but wrong signature has been answered 401.
C7_Witness ==
    /\ hpc = "responded"
    /\ validated = 1
    /\ ret[1] = OkFalse
    /\ Len(expected_signature[1]) = DigestLen
    /\ status = UNAUTHORIZED

\* C8: for a request whose signature header is absent or not readable as
\* text, validate_signature is never entered and the response is 400.
C8_NoHeaderIs400WithoutValidation ==
    ( hpc # "idle" /\ header.kind # "text" )
    => /\ validated = 0
       /\ pc[1] = "idle"
       /\ hpc \in { "get_header", "responded" }
       /\ hpc = "responded" => status = BAD_REQUEST

\* A request without the header has been answered 400.
C8_Witness ==
    /\ hpc = "responded"
    /\ header = NoHeader
    /\ status = BAD_REQUEST
    /\ validated = 0

(***************************************************************************)
(* Properties of concurrent calls, checked under SpecConc.                 *)
(***************************************************************************)
\* A call that returns in this step returns what the call returns alone.
ReturnsAsAlone ==
    \A c \in Calls :
        ( pc[c] # "done" /\ pc[c]' = "done" )
        => ret[c]' = ValidateSignature(body[c]', channel_secret[c]', signature[c]')

\* A step changes the frame of one call at most, and the frame of a call
\* that has returned stays as it is until its caller takes the value.
OneFrameChanges ==
    /\ \A c \in Calls, d \in Calls :
         c # d => ( Frame(c)' = Frame(c) \/ Frame(d)' = Frame(d) )
    /\ \A c \in Calls :
         pc[c] = "done" => ( Frame(c)' = Frame(c) \/ pc[c]' = "idle" )

\* C9: with the steps of any number of calls interleaved in any order, each
\* call returns the outcome it returns when run alone, and no step of a
\* call touches the frame of another call.
C9_ConcurrentCallsIndependent == [][ ReturnsAsAlone /\ OneFrameChanges ]_vars

\* Two calls with different signatures are both inside the comparison loop.
C9_Witness ==
    /\ pc[1] = "loop"
    /\ pc[2] = "loop"
    /\ idx[1] > 0
    /\ idx[2] > idx[1]
    /\ signature[1] # signature[2]

\* Two calls that have returned and had the same arguments returned the same.
SameOutcomeForSameInputs ==
    \A c \in Calls, d \in Calls :
        ( /\ pc[c] = "done"
          /\ pc[d] = "done"
          /\ body[c] = body[d]
          /\ channel_secret[c] = channel_secret[d]
          /\ signature[c] = signature[d] )
        => ret[c] = ret[d]

\* A step of a call in progress changes nothing but that call's frame.
NothingOutsideTheCall ==
    \A c \in Calls :
        ( pc[c] \notin { "idle", "done" } /\ Frame(c)' # Frame(c) )
        => /\ UNCHANGED handler_vars
           /\ \A d \in Calls \ { c } : Frame(d)' = Frame(d)

\* C10: two calls with the same payload, secret and claimed signature return
\* the same outcome, whichever calls were made before or run beside them,
\* and a call changes no state outside its own frame.
C10_DeterministicNoSideEffect ==
    [][ SameOutcomeForSameInputs' /\ NothingOutsideTheCall ]_vars

\* Two calls with the same arguments have both returned Ok(false).
C10_Witness ==
    /\ pc[1] = "done"
    /\ pc[2] = "done"
    /\ body[1] = body[2]
    /\ channel_secret[1] = channel_secret[2]
    /\ signature[1] = signature[2]
    /\ ret[1] = OkFalse
    /\ ret[2] = OkFalse
    /\ idx[1] = DigestLen

(***************************************************************************)
(* The shape of the comparison, checked under Spec.                        *)
(***************************************************************************)
\* The positions of validate_signature before its comparison loop.
BeforeLoop == { "decode", "new_mac", "update", "finalize", "len_check", "init_result" }

\* No pair is compared before the length check has passed, and the loop is
\* entered only with a decoded signature of the digest's length.
LengthCheckedFirst ==
    \A c \in Calls :
        /\ pc[c] \in BeforeLoop => ( idx[c] = 0 /\ result[c] = 0 )
        /\ ( pc[c] = "loop" \/ idx[c] > 0 )
             => /\ Len(expected_signature[c]) = DigestLen
                /\ Len(computed_signature[c]) = DigestLen
        /\ ( pc[c] = "done" /\ Len(expected_signature[c]) = DigestLen )
             => idx[c] = DigestLen

\* A step of the loop depends on the number of pairs visited alone: below
\* the digest's length it visits the next pair and stays in the loop, at the
\* digest's length it returns.
EveryPairVisited ==
    \A c \in Calls :
        ( pc[c] = "loop" /\ Frame(c)' # Frame(c) )
        => IF idx[c] < DigestLen
           THEN /\ pc[c]' = "loop"
                /\ idx[c]' = idx[c] + 1
                /\ ret[c]' = NoOutcome
           ELSE /\ pc[c]' = "done"
                /\ idx[c]' = idx[c]

\* C11: with a decoded signature of the digest's length the comparison
\* visits every byte pair, one per step and in order, and returns only
\* after the last one, whether the bytes match or wherever they first
\* differ; the length check comes before any pair is compared.
C11_EveryPairComparedNoEarlyExit == [][ LengthCheckedFirst' /\ EveryPairVisited ]_vars

\* A signature whose first byte differs from the digest's is still inside the
\* loop, the difference already accumulated.
C11_Witness ==
    /\ pc[1] = "loop"
    /\ signature[1] = Base64Encode(FlipBit(HmacSha256(SecretA, Hello), 0))
    /\ body[1] = Hello
    /\ channel_secret[1] = SecretA
    /\ result[1] # 0
    /\ idx[1] = DigestLen - 1

(***************************************************************************)
(* The alphabet of the claimed signature, checked under Spec.              *)
(***************************************************************************)
\* Whether the text holds a symbol that only the URL-safe alphabet has.
HasUrlSafeSymbol(sig) == \E i \in 1..Len(sig) : sig[i] \in { "-", "_" }

\* C12: a claimed signature that contains '-' or '_' is never accepted, not
\* even when it is the URL-safe encoding of the right digest: its call ends
\* with InvalidSignatureFormat and holds no Ok outcome at any point.
C12_UrlSafeAlphabetRejected ==
    \A c \in Calls :
        ( pc[c] # "idle" /\ HasUrlSafeSymbol(signature[c]) )
        => /\ ret[c] \in { NoOutcome, InvalidSignatureFormat }
           /\ pc[c] = "done" => ret[c] = InvalidSignatureFormat

\* The URL-safe encoding of the right digest, which contains '-', has been
\* rejected as malformed.
C12_Witness ==
    /\ pc[1] = "done"
    /\ body[1] = Hello
    /\ channel_secret[1] = SecretA
    /\ signature[1] = UrlSafeEncode(HmacSha256(SecretA, Hello))
    /\ \E i \in 1..Len(signature[1]) : signature[1][i] = "-"
    /\ ret[1] = InvalidSignatureFormat

(***************************************************************************)
(* Properties of the event loop, checked under SpecHook.                   *)
(***************************************************************************)
\* A message event that carries a reply token and a text message.
Qualifies(e) == e.type = "message" /\ e.hasToken /\ e.msgType = "text"

\* The replies due for the first n events: one per qualifying event, with
\* its reply token and its text, in the order of the events.
RECURSIVE RepliesDue(_, _)
RepliesDue(evs, n) ==
    IF n = 0 THEN << >>
    ELSE IF Qualifies(evs[n])
         THEN Append(RepliesDue(evs, n - 1),
                     [ replyToken |-> evs[n].replyToken, text |-> evs[n].text ])
         ELSE RepliesDue(evs, n - 1)

\* C13: for a verified and parsed request, the reply_message calls made
\* after any number of events handled are exactly one per qualifying event
\* handled (message event, reply token, text message), carrying its reply
\* token and text, and none for any other event.
C13_OneReplyPerTextMessage ==
    /\ replies = RepliesDue(events, ev)
    /\ ev > 0 => /\ ret[1] = OkTrue
                 /\ FromSlice(req_body).ok
                 /\ events = FromSlice(req_body).events

\* A follow event and a text message have been handled: one reply, for the
\* text message.
C13_Witness ==
    /\ ev = 2
    /\ Len(events) = 2
    /\ events[1].type = "follow"
    /\ Qualifies(events[2])
    /\ replies = << [ replyToken |-> "tokT", text |-> "hi" ] >>

\* While the events are handled there is one result per event handled and
\* no response yet; the response to a verified request whose body parsed is
\* 200, given when every event has its result.
AllEventsThenOk ==
    /\ hpc = "events" => /\ ev <= Len(events)
                         /\ Len(results) = ev
                         /\ status = 0
    /\ ( hpc = "responded" /\ parsed /\ FromSlice(req_body).ok )
         => /\ status = OK
            /\ events = FromSlice(req_body).events
            /\ ev = Len(events)
            /\ Len(results) = Len(events)

\* With an event left, the handler's next step handles that event and
\* stays in the loop, whatever the results so far and whatever its own.
NextEventWhateverTheResult ==
    ( hpc = "events" /\ ev < Len(events) /\ handler_vars' # handler_vars )
    => /\ hpc' = "events"
       /\ ev' = ev + 1
       /\ events' = events
       /\ Len(results') = ev + 1
       /\ SubSeq(results', 1, ev) = results
       /\ results'[ev + 1] \in { "ok", "error" }

\* C14: once a request's signature is verified and its body parsed, every
\* event is handled, in order; an event whose handling fails is followed by
\* the next one all the same, and the response is 200 whatever the results.
C14_AllEventsHandledThen200 ==
    [][ AllEventsThenOk' /\ NextEventWhateverTheResult ]_vars

\* The reply to the first of two text messages failed, the second was
\* handled all the same and the response is 200.
C14_Witness ==
    /\ hpc = "responded"
    /\ status = OK
    /\ results = << "error", "ok" >>
    /\ Len(replies) = 2
    /\ Len(events) = 2

====
